---- MODULE Spec2Model ----
(***************************************************************************)
(* Model of src/lt.py: a Streamlit script that starts a Flask server in a  *)
(* daemon thread and shares the module-level dictionary `reports` (guarded *)
(* by `reports_lock`) with it.                                             *)
(*                                                                         *)
(* Streamlit executes the script top to bottom once per browser event,     *)
(* each time in a fresh module namespace, so lines 48-49 create a new      *)
(* dictionary and a new lock on every execution.  The Flask thread is      *)
(* started once per session (lines 160-162); its handler receive_report    *)
(* is the function object defined by the execution that started the        *)
(* thread, and its globals are that execution's namespace.  A namespace is *)
(* identified here by the number of the execution that created it.         *)
(*                                                                         *)
(* Report dictionaries (`entry`, lines 124-128) are heap objects: a list   *)
(* in `reports` holds references (indices into `heap`), so that            *)
(* list.copy() (line 207) is a shallow copy.                               *)
(***************************************************************************)
EXTENDS Integers, Sequences, FiniteSets, TLC

VARIABLES
    run,            \* number of script executions started; the current namespace
    upc,            \* position of the script thread
    button,         \* value st.button("Generate link") returns in this execution
    session,        \* st.session_state: [flask_started, meta]
    flaskNs,        \* namespace the Flask thread serves from (0: not started)
    reports,        \* live namespace -> (token -> sequence of entry references)
    reports_lock,   \* live namespace -> set of threads holding reports_lock
    heap,           \* entry objects, by reference
    clock,          \* what datetime.utcnow() returns next
    nreq,           \* number of requests received so far
    token,          \* script local `token` (line 173)
    tokens,         \* script local `tokens` (line 200)
    sel,            \* script local `sel` (line 205)
    token_reports,  \* script local `token_reports` (line 207)
    jsonArg,        \* the object st.json is handed (line 236), a namespace's dict
    raised,         \* whether the body of the last `with` block raised
    hpc,            \* position of each Flask request thread
    htok,           \* <token> of the request each thread serves
    hdata,          \* request body of each thread
    hent,           \* reference of the entry each thread built
    hstatus         \* HTTP status each thread returned

vars == <<run, upc, button, session, flaskNs, reports, reports_lock, heap, clock, nreq,
          token, tokens, sel, token_reports, jsonArg, raised,
          hpc, htok, hdata, hent, hstatus>>

uiVars == <<token, tokens, sel, token_reports, jsonArg, raised>>
hVars == <<hpc, htok, hdata, hent, hstatus>>

----------------------------------------------------------------------------
(* Bounds *)

MaxRuns == 2
MaxRequests == 2
MaxLen == 2

----------------------------------------------------------------------------
(* Values *)

Tokens == {"abc123", "zzz999"}
NoToken == ""

\* Request bodies, by what request.get_json(force=True) makes of them:
\*   "malformed"  an absent or unparseable body: get_json raises
\*   "bad_lat"    JSON whose latitude or longitude is absent or not a number
\*   "valid"      a JSON object with numeric latitude and longitude
Bodies == {"malformed", "bad_lat", "valid"}
NoBody == "none"

UI == 0
\* werkzeug's threaded server (app.run, line 136) serves each request in a
\* thread of its own; a thread is named by its request's arrival number.
Handlers == 1..MaxRequests

EmptyDict == [t \in {} |-> <<>>]

----------------------------------------------------------------------------
(* The store's primitive operations *)

\* request.get_json(force=True): raises on an absent or unparseable body
GetJsonRaises(body) == body = "malformed"

\* threading.Lock: acquire succeeds only on an unheld lock
CanAcquire_Always(holders) == TRUE

CanAcquire(holders) == holders = {}

\* dict.setdefault(token, []) on dictionary d
SetDefault_Reset(d, t) == [x \in DOMAIN d \cup {t} |-> IF x = t THEN <<>> ELSE d[x]]

SetDefault(d, t) == [x \in DOMAIN d \cup {t} |-> IF x \in DOMAIN d THEN d[x] ELSE <<>>]

\* reports.setdefault(token, []).append(entry)
AppendEntry_KnownOnly(d, t, e) ==
    IF t \in DOMAIN d THEN [d EXCEPT ![t] = Append(@, e)] ELSE d

AppendEntry(d, t, e) == [SetDefault(d, t) EXCEPT ![t] = Append(@, e)]

\* reports.get(sel, []).copy(): a new list holding the same entry references
GetCopy(d, t) == IF t \in DOMAIN d THEN d[t] ELSE <<>>

----------------------------------------------------------------------------
Init ==
    /\ run = 0
    /\ upc = "idle"
    /\ button = FALSE
    /\ session = [flask_started |-> FALSE, meta |-> {}]
    /\ flaskNs = 0
    /\ reports = [n \in {} |-> EmptyDict]
    /\ reports_lock = [n \in {} |-> {}]
    /\ heap = <<>>
    /\ clock = 0
    /\ nreq = 0
    /\ token = NoToken
    /\ tokens = {}
    /\ sel = NoToken
    /\ token_reports = <<>>
    /\ jsonArg = 0
    /\ raised = FALSE
    /\ hpc = [h \in Handlers |-> "idle"]
    /\ htok = [h \in Handlers |-> NoToken]
    /\ hdata = [h \in Handlers |-> NoBody]
    /\ hent = [h \in Handlers |-> 0]
    /\ hstatus = [h \in Handlers |-> 0]

----------------------------------------------------------------------------
(* The script thread *)

\* The namespaces some thread can still reach once execution n has begun
Live(n) == {n} \cup (IF flaskNs = 0 THEN {} ELSE {flaskNs})

\* Lines 48-49: a (re-)execution of the script binds `reports` and
\* `reports_lock` to a new dictionary and a new lock.  The first execution of
\* a session carries no widget state, so its button is not pressed.
\* Lines 160-162: the Flask thread is started unless the session has started
\* one; it serves from the namespace of the execution that starts it.
ScriptStart ==
    /\ upc = "idle"
    /\ run < MaxRuns
    /\ run' = run + 1
    /\ \E b \in BOOLEAN : (run = 0 => ~b) /\ button' = b
    /\ IF ~session.flask_started
       THEN /\ flaskNs' = run + 1
            /\ session' = [session EXCEPT !.flask_started = TRUE]
       ELSE UNCHANGED <<flaskNs, session>>
    /\ reports' = [n \in Live(run + 1) |-> IF n = run + 1 THEN EmptyDict ELSE reports[n]]
    /\ reports_lock' = [n \in Live(run + 1) |-> IF n = run + 1 THEN {} ELSE reports_lock[n]]
    /\ upc' = "button"
    /\ UNCHANGED <<heap, clock, nreq, uiVars, hVars>>

\* Line 172, button not pressed
GenerateSkip ==
    /\ upc = "button"
    /\ ~button
    /\ upc' = "tokens"
    /\ UNCHANGED <<run, button, session, flaskNs, reports, reports_lock, heap, clock, nreq,
                   uiVars, hVars>>

\* Lines 172-176: token = uuid.uuid4().hex[:12]
GenerateToken ==
    /\ upc = "button"
    /\ button
    /\ \E t \in Tokens : token' = t
    /\ upc' = "gen_acquire"
    /\ UNCHANGED <<run, button, session, flaskNs, reports, reports_lock, heap, clock, nreq,
                   tokens, sel, token_reports, jsonArg, raised, hVars>>

\* Line 178: with reports_lock
GenAcquire ==
    /\ upc = "gen_acquire"
    /\ CanAcquire(reports_lock[run])
    /\ reports_lock' = [reports_lock EXCEPT ![run] = @ \cup {UI}]
    /\ upc' = "gen_body"
    /\ UNCHANGED <<run, button, session, flaskNs, reports, heap, clock, nreq,
                   uiVars, hVars>>

\* Line 179: reports.setdefault(token, [])
GenSetDefault ==
    /\ upc = "gen_body"
    /\ reports' = [reports EXCEPT ![run] = SetDefault(@, token)]
    /\ upc' = "gen_release"
    /\ UNCHANGED <<run, button, session, flaskNs, reports_lock, heap, clock, nreq,
                   uiVars, hVars>>

\* End of the with block, then lines 181-191: st.session_state["meta_<token>"]
GenRelease ==
    /\ upc = "gen_release"
    /\ reports_lock' = [reports_lock EXCEPT ![run] = @ \ {UI}]
    /\ session' = [session EXCEPT !.meta = @ \cup {token}]
    /\ upc' = "tokens"
    /\ UNCHANGED <<run, button, flaskNs, reports, heap, clock, nreq, uiVars, hVars>>

\* Lines 200-205: the selector's tokens are the meta_ keys of the session
ComputeTokens ==
    /\ upc = "tokens"
    /\ tokens' = session.meta
    /\ IF session.meta = {}
       THEN /\ upc' = "raw_acquire"
            /\ sel' = sel
       ELSE /\ upc' = "dash_acquire"
            /\ \E s \in session.meta : sel' = s
    /\ UNCHANGED <<run, button, session, flaskNs, reports, reports_lock, heap, clock, nreq,
                   token, token_reports, jsonArg, raised, hVars>>

\* Line 206: with reports_lock
DashAcquire ==
    /\ upc = "dash_acquire"
    /\ CanAcquire(reports_lock[run])
    /\ reports_lock' = [reports_lock EXCEPT ![run] = @ \cup {UI}]
    /\ upc' = "dash_body"
    /\ UNCHANGED <<run, button, session, flaskNs, reports, heap, clock, nreq,
                   uiVars, hVars>>

\* Line 207: token_reports = reports.get(sel, []).copy()
DashCopy ==
    /\ upc = "dash_body"
    /\ token_reports' = GetCopy(reports[run], sel)
    /\ upc' = "dash_release"
    /\ UNCHANGED <<run, button, session, flaskNs, reports, reports_lock, heap, clock, nreq,
                   token, tokens, sel, jsonArg, raised, hVars>>

\* End of the with block of line 206; lines 209-231 render token_reports
DashRelease ==
    /\ upc = "dash_release"
    /\ reports_lock' = [reports_lock EXCEPT ![run] = @ \ {UI}]
    /\ upc' = "raw_acquire"
    /\ UNCHANGED <<run, button, session, flaskNs, reports, heap, clock, nreq,
                   uiVars, hVars>>

\* Line 235: with reports_lock
RawAcquire ==
    /\ upc = "raw_acquire"
    /\ CanAcquire(reports_lock[run])
    /\ reports_lock' = [reports_lock EXCEPT ![run] = @ \cup {UI}]
    /\ upc' = "raw_body"
    /\ UNCHANGED <<run, button, session, flaskNs, reports, heap, clock, nreq,
                   uiVars, hVars>>

\* Line 236: st.json(reports) is handed the dictionary itself; the call
\* returns, or raises when Streamlit stops the execution inside it.
RawJson ==
    /\ upc = "raw_body"
    /\ jsonArg' = run
    /\ \E r \in BOOLEAN : raised' = r
    /\ upc' = "raw_release"
    /\ UNCHANGED <<run, button, session, flaskNs, reports, reports_lock, heap, clock, nreq,
                   token, tokens, sel, token_reports, hVars>>

\* End of the with block of line 235, on return and on exception alike; the
\* execution ends either way and its locals are gone.
RawRelease ==
    /\ upc = "raw_release"
    /\ reports_lock' = [reports_lock EXCEPT ![run] = @ \ {UI}]
    /\ upc' = "idle"
    /\ button' = FALSE
    /\ token' = NoToken
    /\ tokens' = {}
    /\ sel' = NoToken
    /\ token_reports' = <<>>
    /\ jsonArg' = 0
    /\ raised' = FALSE
    /\ UNCHANGED <<run, session, flaskNs, reports, heap, clock, nreq, hVars>>

----------------------------------------------------------------------------
(* The Flask request threads: receive_report, lines 116-133 *)

\* Lines 117-122: a POST /report/<token> arrives; get_json raises -> 400
ReceiveMalformed(h) ==
    /\ flaskNs # 0
    /\ hpc[h] = "idle"
    /\ h = nreq + 1
    /\ nreq' = nreq + 1
    /\ \E t \in Tokens, b \in Bodies :
          /\ GetJsonRaises(b)
          /\ htok' = [htok EXCEPT ![h] = t]
          /\ hdata' = [hdata EXCEPT ![h] = b]
    /\ hent' = [hent EXCEPT ![h] = 0]
    /\ hstatus' = [hstatus EXCEPT ![h] = 400]
    /\ hpc' = [hpc EXCEPT ![h] = "done"]
    /\ UNCHANGED <<run, upc, button, session, flaskNs, reports, reports_lock, heap, clock,
                   uiVars>>

\* Lines 117-128: a POST /report/<token> arrives, get_json returns data, and
\* entry = {"received_at": utcnow, "remote_addr", "payload": data} is built.
\* The field `token` is not part of the entry: it records the URL the request
\* was posted to.
ReceiveParsed(h) ==
    /\ flaskNs # 0
    /\ hpc[h] = "idle"
    /\ h = nreq + 1
    /\ nreq' = nreq + 1
    /\ \E t \in Tokens, b \in Bodies :
          /\ ~GetJsonRaises(b)
          /\ htok' = [htok EXCEPT ![h] = t]
          /\ hdata' = [hdata EXCEPT ![h] = b]
          /\ heap' = Append(heap, [received_at |-> clock, payload |-> b, token |-> t])
    /\ clock' = clock + 1
    /\ hent' = [hent EXCEPT ![h] = Len(heap) + 1]
    /\ hstatus' = [hstatus EXCEPT ![h] = 0]
    /\ hpc' = [hpc EXCEPT ![h] = "acquire"]
    /\ UNCHANGED <<run, upc, button, session, flaskNs, reports, reports_lock, uiVars>>

\* Line 130: with reports_lock
HAcquire(h) ==
    /\ hpc[h] = "acquire"
    /\ CanAcquire(reports_lock[flaskNs])
    /\ reports_lock' = [reports_lock EXCEPT ![flaskNs] = @ \cup {h}]
    /\ hpc' = [hpc EXCEPT ![h] = "append"]
    /\ UNCHANGED <<run, upc, button, session, flaskNs, reports, heap, clock, nreq,
                   uiVars, htok, hdata, hent, hstatus>>

\* Line 131: reports.setdefault(token, []).append(entry)
HAppend(h) ==
    /\ hpc[h] = "append"
    /\ reports' = [reports EXCEPT ![flaskNs] = AppendEntry(@, htok[h], hent[h])]
    /\ hpc' = [hpc EXCEPT ![h] = "release"]
    /\ UNCHANGED <<run, upc, button, session, flaskNs, reports_lock, heap, clock, nreq,
                   uiVars, htok, hdata, hent, hstatus>>

\* End of the with block, then line 133: return {"status": "ok"}, 200
HRelease(h) ==
    /\ hpc[h] = "release"
    /\ reports_lock' = [reports_lock EXCEPT ![flaskNs] = @ \ {h}]
    /\ hstatus' = [hstatus EXCEPT ![h] = 200]
    /\ hpc' = [hpc EXCEPT ![h] = "done"]
    /\ UNCHANGED <<run, upc, button, session, flaskNs, reports, heap, clock, nreq,
                   uiVars, htok, hdata, hent>>

----------------------------------------------------------------------------
ScriptStep ==
    \/ ScriptStart
    \/ GenerateSkip
    \/ GenerateToken
    \/ GenAcquire
    \/ GenSetDefault
    \/ GenRelease
    \/ ComputeTokens
    \/ DashAcquire
    \/ DashCopy
    \/ DashRelease
    \/ RawAcquire
    \/ RawJson
    \/ RawRelease

HandlerStep(h) ==
    \/ ReceiveMalformed(h)
    \/ ReceiveParsed(h)
    \/ HAcquire(h)
    \/ HAppend(h)
    \/ HRelease(h)

Next == ScriptStep \/ \E h \in Handlers : HandlerStep(h)

Spec == Init /\ [][Next]_vars

\* Thread scheduling is fair to the script thread: an execution of the script
\* that has begun runs on.  Neither the arrival of requests, nor the progress of
\* a request thread, nor a re-execution of the script is forced.
ScriptRunStep ==
    \/ GenerateSkip
    \/ GenerateToken
    \/ GenAcquire
    \/ GenSetDefault
    \/ GenRelease
    \/ ComputeTokens
    \/ DashAcquire
    \/ DashCopy
    \/ DashRelease
    \/ RawAcquire
    \/ RawJson
    \/ RawRelease

FairSpec == Spec /\ WF_vars(ScriptRunStep)

----------------------------------------------------------------------------
(* The store operation of lines 178-179 on its own: reports.setdefault(token, []) *)
(* applied, under the lock, to every dictionary with keys among Tokens and lists  *)
(* of at most MaxLen entry references.                                            *)

Lists == UNION {[1..k -> 1..MaxLen] : k \in 0..MaxLen}

Dicts == UNION {[K -> Lists] : K \in SUBSET Tokens}

InitStore ==
    /\ run = 2
    /\ upc = "gen_body"
    /\ button = TRUE
    /\ session = [flask_started |-> TRUE, meta |-> {}]
    /\ flaskNs = 1
    /\ reports \in {[n \in {1, 2} |-> IF n = 1 THEN EmptyDict ELSE d] : d \in Dicts}
    /\ reports_lock = [n \in {1, 2} |-> IF n = 1 THEN {} ELSE {UI}]
    /\ heap = [i \in 1..MaxLen |->
                 [received_at |-> i - 1, payload |-> "valid", token |-> NoToken]]
    /\ clock = MaxLen
    /\ nreq = 0
    /\ token \in Tokens
    /\ tokens = {}
    /\ sel = NoToken
    /\ token_reports = <<>>
    /\ jsonArg = 0
    /\ raised = FALSE
    /\ hpc = [h \in Handlers |-> "idle"]
    /\ htok = [h \in Handlers |-> NoToken]
    /\ hdata = [h \in Handlers |-> NoBody]
    /\ hent = [h \in Handlers |-> 0]
    /\ hstatus = [h \in Handlers |-> 0]

NextStore == GenSetDefault \/ GenRelease

SpecStore == InitStore /\ [][NextStore]_vars

----------------------------------------------------------------------------
(* Views of the state used by the properties *)

\* The dictionary receive_report's global `reports` names
FlaskStore == IF flaskNs \in DOMAIN reports THEN reports[flaskNs] ELSE EmptyDict

\* The dictionary the script's global `reports` names
ScriptStore == IF run \in DOMAIN reports THEN reports[run] ELSE EmptyDict

IsPrefix(s, t) == Len(s) <= Len(t) /\ SubSeq(t, 1, Len(s)) = s

Range(s) == {s[i] : i \in 1..Len(s)}

ListOf(d, t) == IF t \in DOMAIN d THEN d[t] ELSE <<>>

Count(s, e) == Cardinality({i \in 1..Len(s) : s[i] = e})

Stored(d) == UNION {Range(d[t]) : t \in DOMAIN d}

Quiescent == \A h \in Handlers : hpc[h] \in {"idle", "done"}

AppendOnly(d, e) == \A t \in DOMAIN d : t \in DOMAIN e /\ IsPrefix(d[t], e[t])

----------------------------------------------------------------------------
(* Properties *)

\* C1: every receive_report call that returned status ok has its entry exactly
\* once in the list of the token it was posted to and in no other list, under
\* every interleaving; once all calls have completed the store holds those
\* entries and nothing else.
C1_NoLostUpdates ==
    /\ \A h \in Handlers : hstatus[h] = 200 =>
          \A t \in Tokens :
             Count(ListOf(FlaskStore, t), hent[h]) = (IF t = htok[h] THEN 1 ELSE 0)
    /\ Quiescent =>
          Stored(FlaskStore) = {hent[h] : h \in {k \in Handlers : hstatus[k] = 200}}

\* Two calls to the same token overlapped (the later arrival appended first) and
\* both have completed.
C1_Witness ==
    /\ Quiescent
    /\ \A h \in 1..2 : hstatus[h] = 200 /\ htok[h] = "abc123"
    /\ FlaskStore["abc123"] = <<2, 1>>

\* C2: a dashboard read of token T (line 207) includes every report for which
\* receive_report had returned status ok on T before the read, in whichever
\* execution of the script the read is made.
C2_ReportsReachDashboard ==
    [][(upc = "dash_body" /\ upc' = "dash_release") =>
          \A h \in Handlers : (hstatus[h] = 200 /\ htok[h] = sel) =>
             hent[h] \in Range(token_reports')]_vars

\* C3: a request whose body is missing, or whose latitude or longitude is missing
\* or non-numeric, is never answered with status ok and its entry is in no list.
C3_InvalidPayloadRejected ==
    \A h \in Handlers : hdata[h] \in {"malformed", "bad_lat"} =>
       /\ hstatus[h] # 200
       /\ \A n \in DOMAIN reports : hent[h] \notin Stored(reports[n])

\* C4: when the script computes the selector's tokens (line 200), every token
\* with an entry in a store is among them.
C4_AllStoreTokensSelectable ==
    [][(upc = "tokens" /\ upc' # "tokens") =>
          \A n \in DOMAIN reports : DOMAIN reports[n] \subseteq tokens']_vars

\* C5: a report posted to a token with no store entry creates the entry and is
\* the sole element of its list right after the append, and the request is
\* answered with status ok.
C5_ImplicitCreation ==
    /\ [][\A h \in Handlers :
             (hpc[h] = "append" /\ hpc'[h] = "release"
                 /\ htok[h] \notin DOMAIN FlaskStore) =>
                (htok[h] \in DOMAIN FlaskStore'
                    /\ FlaskStore'[htok[h]] = <<hent[h]>>)]_vars
    /\ [](\A h \in Handlers :
             (hpc[h] = "done" /\ ~GetJsonRaises(hdata[h])) => hstatus[h] = 200)

\* A report to a token no link was generated for has just been appended as the
\* first of its list.
C5_Witness ==
    /\ hpc[1] = "release"
    /\ htok[1] = "zzz999"
    /\ "zzz999" \notin session.meta
    /\ FlaskStore["zzz999"] = <<hent[1]>>

\* C6: what a read hands to the reader shares no object with a store: neither a
\* store's dictionary nor any report record a store holds.
C6_ReadsShareNothing ==
    /\ jsonArg \notin DOMAIN reports
    /\ \A n \in DOMAIN reports : Range(token_reports) \cap Stored(reports[n]) = {}

\* C7: reports.setdefault(token, []) on a token the dictionary already holds
\* leaves every list of the dictionary as it was.
C7_CreateTokenIdempotent ==
    [][(upc = "gen_body" /\ upc' = "gen_release" /\ token \in DOMAIN ScriptStore) =>
          ScriptStore' = ScriptStore]_vars

\* The operation has been applied to a token that already had reports.
C7_Witness ==
    /\ upc = "gen_release"
    /\ token \in DOMAIN ScriptStore
    /\ ScriptStore[token] # <<>>

\* C8: the store the script sees and the store receive_report sees are
\* append-only: from any state to the next no token leaves and every list is a
\* prefix of what it becomes.
C8_AppendOnly ==
    [][AppendOnly(ScriptStore, ScriptStore') /\ AppendOnly(FlaskStore, FlaskStore')]_vars

\* No lock object has two holders
MutualExclusion == \A n \in DOMAIN reports_lock : Cardinality(reports_lock[n]) <= 1

\* A thread holds a lock only between entering and leaving a with block
HeldOnlyInside ==
    \A n \in DOMAIN reports_lock :
       /\ UI \in reports_lock[n] =>
             (n = run /\ upc \in {"gen_body", "gen_release", "dash_body",
                                  "dash_release", "raw_body", "raw_release"})
       /\ \A h \in Handlers : h \in reports_lock[n] =>
             (n = flaskNs /\ hpc[h] \in {"append", "release"})

\* C9: no lock is held by two threads at once, a thread holds a lock only
\* inside its critical section (so it has released it on every exit), and a
\* dashboard read that has reached line 206 gets the lock and completes.
C9_SnapshotReadCompletes ==
    /\ []MutualExclusion
    /\ []HeldOnlyInside
    /\ (upc = "dash_acquire") ~> (upc = "raw_acquire")

\* The dashboard read holds its lock while a request waits for one.
C9_Witness ==
    /\ upc = "dash_body"
    /\ UI \in reports_lock[run]
    /\ \E h \in Handlers : hpc[h] = "acquire"

\* C10: every list of every store is in non-decreasing order of received_at.
C10_OrderedByReceivedAt ==
    \A n \in DOMAIN reports : \A t \in DOMAIN reports[n] :
       \A i, j \in 1..Len(reports[n][t]) :
          i < j => heap[reports[n][t][i]].received_at <= heap[reports[n][t][j]].received_at

====
